---- MODULE Spec2Model ----
(***************************************************************************)
(* The asset replacement pipeline of contentful-asset-replacer.            *)
(*                                                                         *)
(* src/main.go holds two main programs: the replacer (lines 17-260, with   *)
(* validateAssetReplacement) and an older copy (lines 318-492) that writes *)
(* the success row right after PublishEntry.  Both drive the same row loop *)
(* over the client of src/contentful.  The content backend is a black box: *)
(* every remote call draws its answer from the answers the client code     *)
(* distinguishes, and the backend's own bookkeeping (versions, links,      *)
(* asset states) follows the optimistic-concurrency contract.              *)
(***************************************************************************)
EXTENDS Integers, Sequences, FiniteSets, TLC

\* ------------------------------------------------------------------ bounds
MaxRows == 2
\* rows of the input of a run that finds ledgers of earlier runs
MaxRerunRows == 1
\* characters of a file name handed to the download naming rule
MaxNameLen == 3
\* characters of a URL after its scheme
MaxRestLen == 2

\* ------------------------------------------------------- program constants
PollCap == 60

\* ------------------------------------------------------------ input values
\* CSV records the reader can hand to the loop: two data rows, a header row
\* in mixed case, a row with a blank entry id, a one-column row.
Records ==
  { <<"E1", "A1">>, <<"E1", "A2">>,
    <<"Entry_ID", "Asset_Id">>, <<" ", "A1">>, <<"E1">> }

RECURSIVE SeqsUpTo(_)
SeqsUpTo(n) ==
  IF n = 0 THEN { <<>> }
  ELSE LET shorter == SeqsUpTo(n - 1)
       IN shorter \cup { Append(s, r) : s \in { t \in shorter : Len(t) = n - 1 }, r \in Records }

Inputs == { s \in SeqsUpTo(MaxRows) : Len(s) >= 1 }

\* strings.TrimSpace on the field values of Records
TrimSpace(s) == IF s = " " THEN "" ELSE s

\* strings.ToLower on the field values of Records
ToLower(s) ==
  CASE s = "Entry_ID" -> "entry_id"
    [] s = "Asset_Id" -> "asset_id"
    [] OTHER -> s

\* strings.EqualFold
EqualFold(a, b) == ToLower(a) = ToLower(b)

\* ------------------------------------------------------------ the backend
EntryIds == {"E1"}
OldAssetIds == {"A1", "A2"}
NewIdSeq == <<"N1", "N2", "N3", "N4", "N5">>
NewAssetIds == { NewIdSeq[k] : k \in 1..Len(NewIdSeq) }
AssetIds == OldAssetIds \cup NewAssetIds

\* E1 links A1; A1 has a file, A2 has none.
InitEntries == [e \in EntryIds |-> [version |-> 3, link |-> "A1"]]

InitAssets ==
  [a \in AssetIds |->
     IF a = "A1" THEN [exists |-> TRUE, version |-> 2, url |-> "//cdn/a1.pdf", state |-> "published"]
     ELSE IF a = "A2" THEN [exists |-> TRUE, version |-> 1, url |-> "", state |-> "published"]
     ELSE [exists |-> FALSE, version |-> 0, url |-> "", state |-> "none"]]

\* DownloadAssetFile's destPath: destDir / name_<CreatedAt timestamp>.ext
DestPath(id) ==
  IF id = "A1" THEN "downloaded/a1_20200101_000000.pdf"
  ELSE "downloaded/a2_20200202_000000.pdf"

\* -------------------------------------------------- file names and URLs
\* file names are sequences of characters: a letter, the dot, the underscore
NameChars == {"a", ".", "_"}

RECURSIVE NamesUpTo(_)
NamesUpTo(n) ==
  IF n = 0 THEN { <<>> }
  ELSE LET shorter == NamesUpTo(n - 1)
       IN shorter \cup { Append(s, c) : s \in { t \in shorter : Len(t) = n - 1 }, c \in NameChars }

FileNames == { s \in NamesUpTo(MaxNameLen) : Len(s) >= 1 }

\* time.Format("20060102_150405") of two creation times
Timestamps ==
  { <<"2", "0", "2", "0", "0", "1", "0", "1", "_", "0", "0", "0", "0", "0", "0">>,
    <<"1", "9", "9", "9", "1", "2", "3", "1", "_", "2", "3", "5", "9", "5", "9">> }

\* strings.HasSuffix
HasSuffix(s, suffix) ==
  /\ Len(suffix) <= Len(s)
  /\ SubSeq(s, Len(s) - Len(suffix) + 1, Len(s)) = suffix

\* strings.TrimSuffix
TrimSuffix(s, suffix) ==
  IF HasSuffix(s, suffix) THEN SubSeq(s, 1, Len(s) - Len(suffix)) ELSE s

\* filepath.Ext: the suffix beginning at the final dot, empty if there is none
Ext(path) ==
  LET dots == { k \in DOMAIN path : path[k] = "." }
  IN IF dots = {} THEN <<>>
     ELSE SubSeq(path, CHOOSE k \in dots : \A m \in dots : m <= k, Len(path))

\* asset.go:619-623: name_<timestamp> placed before the extension
TimestampedName(name, stamp) ==
  LET ext == Ext(name)
      nameWithoutExt == TrimSuffix(name, ext)
  IN nameWithoutExt \o <<"_">> \o stamp \o ext

\* asset.go:565-588
removeTimestampFromFilename(filename, originalCreatedAt) ==
  IF originalCreatedAt = <<>> THEN filename
  ELSE LET timestampPattern == <<"_">> \o originalCreatedAt
       IN IF HasSuffix(filename, timestampPattern)
          THEN LET ext == Ext(filename)
                   nameWithoutExt == TrimSuffix(filename, ext)
               IN TrimSuffix(nameWithoutExt, timestampPattern) \o ext
          ELSE filename

\* URLs are sequences of characters: an optional scheme, then a rest
UrlChars == {"a", "/"}

RECURSIVE RestsUpTo(_)
RestsUpTo(n) ==
  IF n = 0 THEN { <<>> }
  ELSE LET shorter == RestsUpTo(n - 1)
       IN shorter \cup { Append(s, c) : s \in { t \in shorter : Len(t) = n - 1 }, c \in UrlChars }

\* no scheme, protocol-relative, http in three letter cases, https, another scheme
Schemes ==
  { <<>>, <<"/", "/">>,
    <<"h", "t", "t", "p", ":", "/", "/">>,
    <<"H", "T", "T", "P", ":", "/", "/">>,
    <<"H", "t", "t", "p", ":", "/", "/">>,
    <<"h", "t", "t", "p", "s", ":", "/", "/">>,
    <<"f", "t", "p", ":", "/", "/">> }

\* white space around a URL: none or one blank
Pads == { <<>>, <<" ">> }

Urls ==
  { l \o s \o r \o t : l \in Pads, s \in Schemes, r \in RestsUpTo(MaxRestLen), t \in Pads }

\* strings.TrimSpace on a sequence of characters
RECURSIVE TrimSpaceChars(_)
TrimSpaceChars(s) ==
  IF s = <<>> THEN s
  ELSE IF Head(s) = " " THEN TrimSpaceChars(Tail(s))
  ELSE IF s[Len(s)] = " " THEN TrimSpaceChars(SubSeq(s, 1, Len(s) - 1))
  ELSE s

\* strings.ToLower on a sequence of characters
ToLowerChars(s) ==
  [k \in DOMAIN s |->
     CASE s[k] = "H" -> "h"
       [] s[k] = "T" -> "t"
       [] s[k] = "P" -> "p"
       [] OTHER -> s[k]]

\* strings.HasPrefix
HasPrefix(s, prefix) ==
  /\ Len(prefix) <= Len(s)
  /\ SubSeq(s, 1, Len(prefix)) = prefix

\* strings.TrimPrefix
TrimPrefix(s, prefix) ==
  IF HasPrefix(s, prefix) THEN SubSeq(s, Len(prefix) + 1, Len(s)) ELSE s

\* asset.go:553-563
ensureHTTPS(url) ==
  LET s == TrimSpaceChars(url)
  IN IF HasPrefix(s, <<"/", "/">>)
     THEN <<"h", "t", "t", "p", "s", ":">> \o s
     ELSE IF HasPrefix(ToLowerChars(s), <<"h", "t", "t", "p", ":", "/", "/">>)
     THEN <<"h", "t", "t", "p", "s", ":", "/", "/">>
            \o TrimPrefix(s, <<"h", "t", "t", "p", ":", "/", "/">>)
     ELSE s

\* --------------------------------------------------------- asset metadata
\* sys.createdAt of an old asset, formatted as 20060102_150405 (see DestPath)
CreatedAtOf(id) ==
  IF id = "A1"
  THEN <<"2", "0", "2", "0", "0", "1", "0", "1", "_", "0", "0", "0", "0", "0", "0">>
  ELSE <<"2", "0", "2", "0", "0", "2", "0", "2", "_", "0", "0", "0", "0", "0", "0">>

\* filepath.Base of the path of the asset's file URL (see InitAssets)
UrlBaseName(id) ==
  IF id = "A1" THEN <<"a", "1", ".", "p", "d", "f">> ELSE <<>>

\* the characters of an asset id
IdChars(id) == IF id = "A1" THEN <<"A", "1">> ELSE <<"A", "2">>

\* fields.file.fileName, fields.file.contentType, fields.title and
\* fields.description an old asset can carry: a file name that is absent, has
\* an extension, has none, or ends in the asset's own creation timestamp; a
\* title that is absent, blank or set
Metadata ==
  [FileName : { <<>>, <<"a", ".", "p">>, <<"a">>, <<"a", "_">> \o CreatedAtOf("A1") },
   ContentType : {"", "application/pdf"},
   Title : { <<>>, <<" ">>, <<"T">> },
   Description : {"", "d"}]

DefaultMeta ==
  [FileName |-> <<"a", "1", ".", "p", "d", "f">>, ContentType |-> "application/pdf",
   Title |-> <<"T">>, Description |-> "d"]

\* ------------------------------------------------------------------ state
VARIABLES
  variant,          \* which main of src/main.go runs: "replacer" or "legacy"
  config,           \* flags and environment main starts with
  meta,             \* backend: the metadata the old assets carry
  input,            \* the records of the input CSV
  prior,            \* what success.csv / failed.csv held when the run began
  pc,               \* position of main
  rowNum,           \* main: rowNum
  fieldsPerRecord,  \* csv.Reader.FieldsPerRecord (0 until the first record)
  entryID, assetID, \* main: the row's trimmed columns
  entry,            \* main: entry (Version, AssetID) from FetchEntry
  asset,            \* main: asset (ID, Version, FileURL, metadata) from FetchAsset
  savedPath,        \* main: savedPath
  newAssetID,       \* main: newAssetID
  newVersion,       \* main: newVersion returned by PatchEntryAssetLink
  created,          \* CreateAndPublishAssetFromFile: newAssetID (created.Sys.ID)
  i,                \* CreateAndPublishAssetFromFile: poll loop counter
  latestVersion,    \* CreateAndPublishAssetFromFile: latestVersion
  successW, failedW,\* rows written to the csv writers, not yet flushed
  successF, failedF,\* rows persisted in success.csv / failed.csv
  warnings,         \* warnf lines: row number and stage
  exitCode,         \* process exit code, -1 while running
  entries, assets,  \* backend: entries and assets
  nCreated,         \* backend: asset records created so far
  files,            \* local file system: paths written under downloaded/
  calls,            \* history: the remote calls issued for row rowNum, in order
  fileName,         \* DownloadAssetFile: fileName, as a sequence of characters
  timestamp,        \* DownloadAssetFile: timestamp (CreatedAt, 20060102_150405)
  fileNameWithTimestamp, \* DownloadAssetFile: fileNameWithTimestamp
  cleanName,        \* what removeTimestampFromFilename returns
  npc,              \* position of the naming round trip
  u,                \* ensureHTTPS: u, as a sequence of characters
  secured,          \* ensureHTTPS(u)
  securedTwice,     \* ensureHTTPS(ensureHTTPS(u))
  upc               \* position of the URL normalisation

locals == <<entryID, assetID, entry, asset, savedPath, newAssetID, newVersion,
            created, i, latestVersion>>
ledgers == <<successW, failedW, successF, failedF>>
backend == <<entries, assets, nCreated>>
names == <<fileName, timestamp, fileNameWithTimestamp, cleanName, npc>>
pipeline == <<config, meta, variant, input, prior, pc, rowNum, fieldsPerRecord, locals, ledgers,
              warnings, exitCode, backend, files, calls>>
urls == <<u, secured, securedTwice, upc>>
vars == <<pipeline, names, urls>>

NoEntry == [Version |-> 0, AssetID |-> ""]
NoAsset ==
  [ID |-> "", Version |-> 0, FileURL |-> "", FileName |-> <<>>, ContentType |-> "",
   Title |-> <<>>, Description |-> ""]

SuccessHeader ==
  [row |-> 0, entry |-> "entry_id", old |-> "old_asset_id", new |-> "new_asset_id",
   err |-> "", detail |-> ""]
FailedHeader ==
  [row |-> 0, entry |-> "entry_id", old |-> "old_asset_id", new |-> "new_asset_id",
   err |-> "error", detail |-> ""]

\* ledgers left by earlier runs: none, or the headers with one outcome row
\* (rows of earlier runs carry row -1)
PriorSuccessRow ==
  [row |-> -1, entry |-> "E1", old |-> "A1", new |-> "N0", err |-> "", detail |-> ""]
PriorFailedRow ==
  [row |-> -1, entry |-> "E1", old |-> "A1", new |-> "", err |-> "fetch entry",
   detail |-> "remote"]
NoPrior == [success |-> <<>>, failed |-> <<>>]
PriorLedgers ==
  { NoPrior,
    [success |-> <<SuccessHeader, PriorSuccessRow>>, failed |-> <<FailedHeader>>],
    [success |-> <<SuccessHeader>>, failed |-> <<FailedHeader, PriorFailedRow>>] }

InitRun ==
  /\ input \in Inputs
  /\ pc = "start"
  /\ rowNum = 0
  /\ fieldsPerRecord = 0
  /\ entryID = "" /\ assetID = ""
  /\ entry = NoEntry /\ asset = NoAsset
  /\ savedPath = "" /\ newAssetID = "" /\ newVersion = 0
  /\ created = "" /\ i = 0 /\ latestVersion = 0
  /\ successW = <<>> /\ failedW = <<>>
  /\ warnings = <<>>
  /\ exitCode = -1
  /\ entries = InitEntries /\ assets = InitAssets /\ nCreated = 0
  /\ files = {}
  /\ calls = <<>>

\* flags and files a run can be started with: -csv, -token, -space-id, and
\* whether the input file and the two ledger files can be opened
Configs ==
  [csvPath : {"", "id.csv"}, token : {" ", "t"}, spaceID : {"", "s"},
   csvOpens : BOOLEAN, successOpens : BOOLEAN, failedOpens : BOOLEAN]

GoodConfig ==
  [csvPath |-> "id.csv", token |-> "t", spaceID |-> "s",
   csvOpens |-> TRUE, successOpens |-> TRUE, failedOpens |-> TRUE]

\* the runs of the pipeline leave the naming round trip aside
NamesIdle ==
  /\ fileName = <<>> /\ timestamp = <<>>
  /\ fileNameWithTimestamp = <<>> /\ cleanName = <<>>
  /\ npc = "idle"

\* the runs of the pipeline leave the URL normalisation aside as well
UrlsIdle ==
  /\ u = <<>> /\ secured = <<>> /\ securedTwice = <<>>
  /\ upc = "idle"

\* a first run: no ledger file exists
InitCommon ==
  /\ InitRun
  /\ NamesIdle
  /\ UrlsIdle
  /\ config = GoodConfig
  /\ meta = DefaultMeta
  /\ prior = NoPrior
  /\ successF = <<>> /\ failedF = <<>>

Init == InitCommon /\ variant = "replacer"

\* a first run started with any flags and files
InitPreflight ==
  /\ InitRun
  /\ NamesIdle
  /\ UrlsIdle
  /\ config \in Configs
  /\ meta = DefaultMeta
  /\ prior = NoPrior
  /\ successF = <<>> /\ failedF = <<>>
  /\ variant = "replacer"

\* a run after earlier runs: the ledger files hold what those left
InitRerun ==
  /\ InitRun
  /\ NamesIdle
  /\ UrlsIdle
  /\ config = GoodConfig
  /\ meta = DefaultMeta
  /\ Len(input) <= MaxRerunRows
  /\ prior \in PriorLedgers
  /\ successF = prior.success /\ failedF = prior.failed
  /\ variant = "replacer"

InitLegacy == InitCommon /\ variant = "legacy"

\* -------------------------------------------------------------- helpers
\* one remote call in the history: token is the version sent (0: none),
\* cur the backend's version of the resource when the call arrives, ret the
\* id the answer carries (the entry's link, the created asset's id), ver the
\* sys.version the answer carries (0: none read from it), body the JSON
\* object ArchiveAsset reads or submits (NoBody for every other call)
NoBody == [k \in {} |-> ""]

Call(op, id, token, cur, res, ret, ver) ==
  [row |-> rowNum, op |-> op, id |-> id, token |-> token, cur |-> cur,
   res |-> res, ret |-> ret, ver |-> ver, body |-> NoBody]

LogBody(op, id, token, cur, res, body) ==
  calls' = Append(calls, [Call(op, id, token, cur, res, "", 0) EXCEPT !.body = body])

LogFull(op, id, token, cur, res, ret, ver) ==
  calls' = Append(calls, Call(op, id, token, cur, res, ret, ver))

LogRet(op, id, token, cur, res, ret) == LogFull(op, id, token, cur, res, ret, 0)

Log(op, id, token, cur, res) == LogRet(op, id, token, cur, res, "")

ResetLocals ==
  /\ entryID' = "" /\ assetID' = ""
  /\ entry' = NoEntry /\ asset' = NoAsset
  /\ savedPath' = "" /\ newAssetID' = "" /\ newVersion' = 0
  /\ created' = "" /\ i' = 0 /\ latestVersion' = 0

\* the loop body run again for the same row instead of `continue`
Continue_Retry == UNCHANGED pc /\ UNCHANGED locals

\* `continue`: back to reader.Read(); the row's variables go out of scope
Continue == pc' = "read" /\ ResetLocals

Warn(what) == warnings' = Append(warnings, [row |-> rowNum, what |-> what])

\* the failure row put before the rows written so far
WriteFailed_Prepended(new, tag, detail) ==
  /\ failedW' = <<[row |-> rowNum, entry |-> entryID, old |-> assetID,
                   new |-> new, err |-> tag, detail |-> detail]>> \o failedW
  /\ UNCHANGED <<successW, successF, failedF>>

\* failedW.Write([]string{entryID, assetID, new, tag: detail}); continue
WriteFailed(new, tag, detail) ==
  /\ failedW' = Append(failedW, [row |-> rowNum, entry |-> entryID, old |-> assetID,
                                 new |-> new, err |-> tag, detail |-> detail])
  /\ UNCHANGED <<successW, successF, failedF>>

\* the failed call tried again instead of `continue`
FailRow_Retries(new, tag, detail) ==
  /\ Warn(tag)
  /\ WriteFailed(new, tag, detail)
  /\ UNCHANGED pc /\ UNCHANGED locals

\* warnf(...); failedW.Write(...); continue
FailRow(new, tag, detail) ==
  /\ Warn(tag)
  /\ WriteFailed(new, tag, detail)
  /\ Continue

\* the quiet branch that forgets its ledger row
FailRowQuiet_NoWrite(new, tag) ==
  /\ UNCHANGED <<warnings, ledgers>>
  /\ Continue

\* failedW.Write(...); continue   (the branches that do not warn)
FailRowQuiet(new, tag) ==
  /\ UNCHANGED warnings
  /\ WriteFailed(new, tag, "")
  /\ Continue

\* the old and the new asset id written in each other's column
WriteSuccess_Swapped(e, old, new) ==
  /\ successW' = Append(successW, [row |-> rowNum, entry |-> e, old |-> new,
                                   new |-> old, err |-> "", detail |-> ""])
  /\ UNCHANGED <<failedW, successF, failedF>>

\* successW.Write([]string{entryID, assetID, newAssetID})
WriteSuccess(e, old, new) ==
  /\ successW' = Append(successW, [row |-> rowNum, entry |-> e, old |-> old,
                                   new |-> new, err |-> "", detail |-> ""])
  /\ UNCHANGED <<failedW, successF, failedF>>

\* ---------------------------------------------------------------- main
\* the header written whatever the file holds
NeedsHeader_Always(f) == TRUE

\* main.go:54, 67: stat.Size() == 0
NeedsHeader(f) == Len(f) = 0

\* the token test left out of the pre-flight checks
ConfigOk_TokenUnchecked(c) ==
  /\ TrimSpace(c.csvPath) # ""
  /\ TrimSpace(c.spaceID) # ""
  /\ c.csvOpens /\ c.successOpens /\ c.failedOpens

\* main.go:27-62: none of the fatalf branches before the row loop is taken
ConfigOk(c) ==
  /\ TrimSpace(c.csvPath) # ""
  /\ TrimSpace(c.token) # ""
  /\ TrimSpace(c.spaceID) # ""
  /\ c.csvOpens /\ c.successOpens /\ c.failedOpens

\* main.go:293-296 called from main.go:27-62: message on stderr, os.Exit(1);
\* deferred calls do not run
fatalf ==
  /\ pc = "start"
  /\ ~ConfigOk(config)
  /\ pc' = "fatal"
  /\ exitCode' = 1
  /\ UNCHANGED <<names, urls, config, meta, variant, input, prior, rowNum, fieldsPerRecord, locals, ledgers,
                 warnings, backend, files, calls>>

\* main.go:46-71: open both ledgers in append mode, header iff empty
Start ==
  /\ pc = "start"
  /\ ConfigOk(config)
  /\ successW' = IF NeedsHeader(successF) THEN <<SuccessHeader>> ELSE <<>>
  /\ failedW' = IF NeedsHeader(failedF) THEN <<FailedHeader>> ELSE <<>>
  /\ pc' = "read"
  /\ UNCHANGED <<names, urls, config, meta, variant, input, prior, rowNum, fieldsPerRecord, locals, successF, failedF,
                 warnings, exitCode, backend, files, calls>>

\* the header test left out: row 1 is always taken as data
IsHeaderRow_Never(n, e, a) == FALSE

\* main.go:99
IsHeaderRow(n, e, a) == n = 1 /\ (EqualFold(e, "entry_id") \/ EqualFold(a, "asset_id"))

\* deferred successW.Flush() / failedW.Flush(), run on return and on panic
FlushLedgers ==
  /\ successF' = successF \o successW
  /\ failedF' = failedF \o failedW
  /\ successW' = <<>>
  /\ failedW' = <<>>

\* main.go:78-102: reader.Read() and the row checks
ReadRow ==
  /\ pc = "read"
  /\ IF rowNum = Len(input)
     THEN \* io.EOF: break, main returns
          /\ pc' = "done"
          /\ exitCode' = 0
          /\ FlushLedgers
          /\ UNCHANGED <<rowNum, fieldsPerRecord, locals, warnings, calls>>
     ELSE LET record == input[rowNum + 1]
              n == rowNum + 1
              fpr == IF fieldsPerRecord = 0 THEN Len(record) ELSE fieldsPerRecord
              e == TrimSpace(record[1])
              a == TrimSpace(record[2])
          IN /\ rowNum' = n
             /\ fieldsPerRecord' = fpr
             /\ calls' = <<>>
             /\ IF Len(record) # fpr
                THEN \* csv.ErrFieldCount
                     /\ warnings' = Append(warnings, [row |-> n, what |-> "read"])
                     /\ pc' = "read"
                     /\ UNCHANGED <<locals, ledgers, exitCode>>
                ELSE IF Len(record) = 0
                THEN /\ warnings' = Append(warnings, [row |-> n, what |-> "empty record"])
                     /\ pc' = "read"
                     /\ UNCHANGED <<locals, ledgers, exitCode>>
                ELSE IF Len(record) < 2
                THEN \* record[1]: index out of range, the run panics
                     /\ pc' = "panicked"
                     /\ exitCode' = 2
                     /\ FlushLedgers
                     /\ UNCHANGED <<locals, warnings>>
                ELSE IF e = "" \/ a = ""
                THEN /\ warnings' = Append(warnings, [row |-> n, what |-> "require entry_id and asset_id"])
                     /\ pc' = "read"
                     /\ UNCHANGED <<locals, ledgers, exitCode>>
                ELSE IF IsHeaderRow(n, e, a)
                THEN /\ pc' = "read"
                     /\ UNCHANGED <<locals, ledgers, warnings, exitCode>>
                ELSE /\ entryID' = e
                     /\ assetID' = a
                     /\ pc' = "fetchEntry"
                     /\ UNCHANGED <<entry, asset, savedPath, newAssetID, newVersion,
                                    created, i, latestVersion, ledgers, warnings, exitCode>>
  /\ UNCHANGED <<names, urls, config, meta, variant, input, prior, backend, files>>

\* main.go:114-119 / entry.go:137-202
FetchEntry ==
  /\ pc = "fetchEntry"
  /\ \E res \in {"ok", "fail"} :
       /\ res = "ok" => entryID \in EntryIds
       /\ LogFull("FetchEntry", entryID, 0, 0, res,
                  IF res = "ok" THEN entries[entryID].link ELSE "",
                  IF res = "ok" THEN entries[entryID].version ELSE 0)
       /\ IF res = "ok"
          THEN /\ entry' = [Version |-> entries[entryID].version,
                            AssetID |-> entries[entryID].link]
               /\ pc' = "fetchAsset"
               /\ UNCHANGED <<entryID, assetID, asset, savedPath, newAssetID, newVersion,
                              created, i, latestVersion, ledgers, warnings>>
          ELSE FailRow("", "fetch entry", "remote")
  /\ UNCHANGED <<names, urls, config, meta, variant, input, prior, rowNum, fieldsPerRecord, exitCode, backend, files>>

\* the asset the entry links fetched instead of the asset of the row
FetchedAssetID_FromEntry == entry.AssetID

\* main.go:123: AssetID: assetID, the asset id of the input row
FetchedAssetID == assetID

\* main.go:129-134 / asset.go:158-224
FetchAsset ==
  /\ pc = "fetchAsset"
  /\ \E res \in {"ok", "fail"} :
       /\ res = "ok" => (FetchedAssetID \in AssetIds /\ assets[FetchedAssetID].exists)
       /\ Log("FetchAsset", FetchedAssetID, 0, 0, res)
       /\ IF res = "ok"
          THEN /\ asset' = [ID |-> FetchedAssetID, Version |-> assets[FetchedAssetID].version,
                            FileURL |-> assets[FetchedAssetID].url,
                            FileName |-> meta.FileName, ContentType |-> meta.ContentType,
                            Title |-> meta.Title, Description |-> meta.Description]
               /\ pc' = "download"
               /\ UNCHANGED <<entryID, assetID, entry, savedPath, newAssetID, newVersion,
                              created, i, latestVersion, ledgers, warnings>>
          ELSE FailRow("", "fetch asset", "remote")
  /\ UNCHANGED <<names, urls, config, meta, variant, input, prior, rowNum, fieldsPerRecord, exitCode, backend, files>>

\* the file created before the status of the transfer is looked at
FilesAfterDownload_CreateFirst(res) == files \cup {DestPath(asset.ID)}

\* asset.go:638-649: a non-2xx answer returns before os.Create(destPath);
\* os.Create creates or truncates the file before io.Copy
FilesAfterDownload(res) ==
  IF res = "fail" THEN files ELSE files \cup {DestPath(asset.ID)}

\* the download attempted for every asset that was fetched
HasFileURL_AnyFetched == asset.ID # ""

\* main.go:137: if strings.TrimSpace(asset.FileURL) != ""
HasFileURL == TrimSpace(asset.FileURL) # ""

\* main.go:136-153 / asset.go:593-653
DownloadAssetFile ==
  /\ pc = "download"
  /\ IF HasFileURL
     THEN \E res \in {"ok", "fail", "copyfail"} :
            /\ Log("Download", asset.ID, 0, 0, res)
            /\ files' = FilesAfterDownload(res)
            /\ IF res = "ok"
               THEN /\ savedPath' = DestPath(asset.ID)
                    /\ pc' = "upload"
                    /\ UNCHANGED <<entryID, assetID, entry, asset, newAssetID, newVersion,
                                   created, i, latestVersion, ledgers, warnings>>
               ELSE FailRow("", "download file", "download")
     ELSE /\ FailRowQuiet("", "asset has empty file URL")
          /\ UNCHANGED <<files, calls>>
  /\ UNCHANGED <<names, urls, config, meta, variant, input, prior, rowNum, fieldsPerRecord, exitCode, backend>>

\* the create error is logged but the row goes on to retire the old asset
CreateFailed_Proceeds(nid, detail) ==
  /\ Warn("create new asset")
  /\ UNCHANGED ledgers
  /\ newAssetID' = nid
  /\ created' = "" /\ i' = 0 /\ latestVersion' = 0
  /\ pc' = "unpublish"
  /\ UNCHANGED <<entryID, assetID, entry, asset, savedPath, newVersion>>

\* main.go:169-172: CreateAndPublishAssetFromFile returned (nid, cerr), cerr != nil
CreateFailed(nid, detail) == FailRow(nid, "create new asset", detail)

\* main.go:157-179 / asset.go:253-283: open the saved file, upload the binary
Upload ==
  /\ pc = "upload"
  /\ IF savedPath # ""
     THEN \E res \in {"ok", "fail"} :
            /\ Log("Upload", "", 0, 0, res)
            /\ IF res = "ok"
               THEN /\ pc' = "createRecord"
                    /\ UNCHANGED <<locals, ledgers, warnings>>
               ELSE CreateFailed("", "upload failed")
     ELSE /\ FailRowQuiet("", "no savedPath for new asset")
          /\ UNCHANGED calls
  /\ UNCHANGED <<names, urls, config, meta, variant, input, prior, rowNum, fieldsPerRecord, exitCode, backend, files>>

\* asset.go:606-623: the base name DownloadAssetFile gives the saved file
SavedName ==
  LET name == TrimSpaceChars(asset.FileName)
      fallback == IF UrlBaseName(asset.ID) # <<>> THEN UrlBaseName(asset.ID)
                  ELSE IdChars(asset.ID)
  IN TimestampedName(IF name # <<>> THEN name ELSE fallback, CreatedAtOf(asset.ID))

\* asset.go:233-247: fileName of the create request
CreateFileName ==
  removeTimestampFromFilename(
    IF TrimSpaceChars(asset.FileName) = <<>> THEN SavedName ELSE asset.FileName,
    CreatedAtOf(asset.ID))

\* asset.go:287-289: title of the create request
CreateTitle ==
  IF TrimSpaceChars(asset.Title) = <<>> THEN CreateFileName ELSE asset.Title

\* the description left out of the create request
CreatePayload_NoDescription ==
  [fileName |-> CreateFileName, contentType |-> asset.ContentType,
   title |-> CreateTitle, description |-> ""]

\* asset.go:290-304: the fields of the create request
CreatePayload ==
  [fileName |-> CreateFileName, contentType |-> asset.ContentType,
   title |-> CreateTitle, description |-> asset.Description]

\* asset.go:285-332: create the asset record; a 2xx body may lack sys.id
CreateRecord ==
  /\ pc = "createRecord"
  /\ nCreated < Len(NewIdSeq)
  /\ \E res \in {"ok", "noid", "fail"} :
       LET id == NewIdSeq[nCreated + 1]
       IN /\ calls' = Append(calls,
                    [Call("CreateAsset", "", 0, 0, res, IF res = "ok" THEN id ELSE "", 0)
                       EXCEPT !.body = CreatePayload])
          /\ IF res = "fail"
             THEN /\ CreateFailed("", "create asset failed")
                  /\ UNCHANGED backend
             ELSE /\ nCreated' = nCreated + 1
                  /\ assets' = [assets EXCEPT ![id] =
                                  [exists |-> TRUE, version |-> 1, url |-> "", state |-> "uploaded"]]
                  /\ created' = IF res = "ok" THEN id ELSE ""
                  /\ pc' = "process"
                  /\ UNCHANGED <<entryID, assetID, entry, asset, savedPath, newAssetID,
                                 newVersion, i, latestVersion, ledgers, warnings, entries>>
  /\ UNCHANGED <<names, urls, config, meta, variant, input, prior, rowNum, fieldsPerRecord, exitCode, files>>

\* asset.go:334-346: request processing; the response status is not looked at
ProcessRequest ==
  /\ pc = "process"
  /\ \E res \in {"ok", "non2xx", "fail"} :
       /\ Log("Process", created, 0, 0, res)
       /\ IF res = "fail"
          THEN /\ CreateFailed(created, "process request")
               /\ UNCHANGED backend
          ELSE /\ assets' = IF res = "ok" /\ created # ""
                            THEN [assets EXCEPT ![created].state = "processing"]
                            ELSE assets
               /\ pc' = "poll"
               /\ UNCHANGED <<locals, ledgers, warnings, entries, nCreated>>
  /\ UNCHANGED <<names, urls, config, meta, variant, input, prior, rowNum, fieldsPerRecord, exitCode, files>>

\* the loop bound off by one
PollContinue_OffByOne(k) == k <= PollCap

\* asset.go:352: the loop condition of the poll
PollContinue(k) == k < PollCap

\* the timeout error returned without the id of the created asset
TimeoutResult_Empty == ""

\* asset.go:397: the id returned with the processing-timeout error
TimeoutResult == created

\* the backend can show a file URL for an asset it is processing; the
\* resource an id-less path names is unknown, its answer is unconstrained
CanBeReady == IF created = "" THEN TRUE ELSE assets[created].state = "processing"

\* asset.go:348-398: one status read of the poll; i status reads were issued
\* before it.  A read without file URL sleeps and re-tests the loop condition.
Poll ==
  /\ pc = "poll"
  /\ PollContinue(i)
  /\ \E res \in {"fail", "pending", "ready"} :
       /\ res = "ready" => CanBeReady
       /\ IF res = "fail"
          THEN /\ Log("Poll", created, 0, 0, res)
               /\ CreateFailed(created, "get created asset failed")
               /\ UNCHANGED backend
          ELSE IF res = "ready"
          THEN /\ LogFull("Poll", created, 0, 0, res, "",
                          IF created # "" THEN assets[created].version + 1 ELSE 1)
               /\ assets' = IF created # ""
                            THEN [assets EXCEPT ![created].state = "processed",
                                                ![created].url = "//cdn/new",
                                                ![created].version = @ + 1]
                            ELSE assets
               /\ latestVersion' = IF created # "" THEN assets[created].version + 1 ELSE 1
               /\ pc' = "publishAsset"
               /\ UNCHANGED <<entryID, assetID, entry, asset, savedPath, newAssetID,
                              newVersion, created, i, ledgers, warnings, entries, nCreated>>
          ELSE IF PollContinue(i + 1)
          THEN /\ latestVersion' = IF created # "" THEN assets[created].version ELSE 1
               /\ i' = i + 1
               /\ UNCHANGED <<pc, entryID, assetID, entry, asset, savedPath, newAssetID,
                              newVersion, created, ledgers, warnings, backend, calls>>
          ELSE \* cap exhausted, !hasURL
               /\ Log("Poll", created, 0, 0, "timeout")
               /\ CreateFailed(TimeoutResult, "asset processing did not complete: file URL missing")
               /\ UNCHANGED backend
  /\ UNCHANGED <<names, urls, config, meta, variant, input, prior, rowNum, fieldsPerRecord, exitCode, files>>

\* the version before the one the last poll read showed
PublishAssetVersion_BeforeLastRead == latestVersion - 1

\* asset.go:407: the version sent with the publish of the new asset
PublishAssetVersion == latestVersion

\* asset.go:400-419 and main.go:173-175: publish the new asset, return its id
PublishAsset ==
  /\ pc = "publishAsset"
  /\ \E res \in {"ok", "fail"} :
       /\ Log("PublishAsset", created, PublishAssetVersion,
              IF created # "" THEN assets[created].version ELSE 0, res)
       /\ IF res = "ok"
          THEN /\ assets' = IF created # ""
                            THEN [assets EXCEPT ![created].state = "published",
                                                ![created].version = @ + 1]
                            ELSE assets
               /\ newAssetID' = created
               /\ created' = "" /\ i' = 0 /\ latestVersion' = 0
               /\ pc' = "unpublish"
               /\ UNCHANGED <<entryID, assetID, entry, asset, savedPath, newVersion,
                              ledgers, warnings, entries, nCreated>>
          ELSE /\ CreateFailed(created, "publish asset failed")
               /\ UNCHANGED backend
  /\ UNCHANGED <<names, urls, config, meta, variant, input, prior, rowNum, fieldsPerRecord, exitCode, files>>

\* main.go:186: the version sent with UnpublishAsset
UnpublishVersion == asset.Version

\* the error test after UnpublishAsset inverted: a 2xx answer fails the row
UnpublishAsset_Inverted ==
  /\ pc = "unpublish"
  /\ \E res \in {"ok", "fail"} :
       /\ Log("UnpublishAsset", assetID, UnpublishVersion, assets[assetID].version, res)
       /\ IF res = "ok"
          THEN /\ assets' = [assets EXCEPT ![assetID].state = "draft",
                                           ![assetID].version = @ + 1]
               /\ FailRow(newAssetID, "unpublish old asset", "remote")
               /\ UNCHANGED <<entries, nCreated>>
          ELSE /\ pc' = "archiveGet"
               /\ UNCHANGED <<locals, ledgers, warnings, backend>>
  /\ UNCHANGED <<names, urls, config, meta, variant, input, prior, rowNum, fieldsPerRecord, exitCode, files>>

\* main.go:181-196 / asset.go:515-551
UnpublishAsset ==
  /\ pc = "unpublish"
  /\ \E res \in {"ok", "fail"} :
       /\ Log("UnpublishAsset", assetID, UnpublishVersion, assets[assetID].version, res)
       /\ IF res = "ok"
          THEN /\ assets' = [assets EXCEPT ![assetID].state = "draft",
                                           ![assetID].version = @ + 1]
               /\ pc' = "archiveGet"
               /\ UNCHANGED <<locals, ledgers, warnings, entries, nCreated>>
          ELSE /\ FailRow(newAssetID, "unpublish old asset", "remote")
               /\ UNCHANGED backend
  /\ UNCHANGED <<names, urls, config, meta, variant, input, prior, rowNum, fieldsPerRecord, exitCode, files>>

\* the archive step left out: the row goes from unpublish straight to the patch
ArchiveGet_Skipped ==
  /\ pc = "archiveGet"
  /\ pc' = "patch"
  /\ UNCHANGED <<locals, ledgers, warnings, calls>>
  /\ UNCHANGED <<names, urls, config, meta, variant, input, prior, rowNum, fieldsPerRecord, exitCode, backend, files>>

\* the asset as the backend returns it: a JSON object with the keys sys and
\* fields; sys holds archivedAt only while the asset is archived
AssetSys(a) ==
  [j \in (IF assets[a].state = "archived" THEN {"id", "version", "archivedAt"}
                                           ELSE {"id", "version"}) |->
     CASE j = "id" -> a
       [] j = "version" -> assets[a].version
       [] OTHER -> "earlier"]

AssetBody(a) ==
  [k \in {"sys", "fields"} |->
     IF k = "sys" THEN AssetSys(a) ELSE [file |-> assets[a].url]]

\* main.go:208-213 / asset.go:437-468: ArchiveAsset reads the current asset;
\* the read fails on a non-2xx status, on a body that does not decode and on
\* a body without a sys object
ArchiveGet ==
  /\ pc = "archiveGet"
  /\ \E res \in {"ok", "fail"} :
       /\ LogBody("ArchiveGet", assetID, 0, 0, res,
                  IF res = "ok" THEN AssetBody(assetID) ELSE NoBody)
       /\ IF res = "ok"
          THEN /\ pc' = "archivePut"
               /\ UNCHANGED <<locals, ledgers, warnings>>
          ELSE FailRow(newAssetID, "archive old asset", "get asset failed")
  /\ UNCHANGED <<names, urls, config, meta, variant, input, prior, rowNum, fieldsPerRecord, exitCode, backend, files>>

\* main.go:203: the version sent with ArchiveAsset
ArchiveVersion == asset.Version

\* asset.go:457: asset, the object decoded from the read just made
ReadBody == calls[Len(calls)].body

\* only the sys object resubmitted, the other top-level keys left out
ArchivePayload_SysOnly(asset_) ==
  [k \in {"sys"} |->
     [j \in DOMAIN asset_["sys"] \cup {"archivedAt"} |->
        IF j = "archivedAt" THEN "now" ELSE asset_["sys"][j]]]

\* asset.go:472-484: payload is a copy of asset whose sys is a copy of sys
\* with archivedAt set to the current time
ArchivePayload(asset_) ==
  [k \in DOMAIN asset_ |->
     IF k = "sys"
     THEN [j \in DOMAIN asset_["sys"] \cup {"archivedAt"} |->
             IF j = "archivedAt" THEN "now" ELSE asset_["sys"][j]]
     ELSE asset_[k]]

\* the error of ArchiveAsset dropped: the row goes on to patch the entry
ArchivePut_ErrorDropped ==
  /\ pc = "archivePut"
  /\ \E res \in {"ok", "fail"} :
       /\ LogBody("ArchivePut", assetID, ArchiveVersion, assets[assetID].version, res,
                  ArchivePayload(ReadBody))
       /\ assets' = IF res = "ok"
                     THEN [assets EXCEPT ![assetID].state = "archived",
                                         ![assetID].version = @ + 1]
                     ELSE assets
       /\ pc' = "patch"
       /\ UNCHANGED <<locals, ledgers, warnings, entries, nCreated>>
  /\ UNCHANGED <<names, urls, config, meta, variant, input, prior, rowNum, fieldsPerRecord, exitCode, files>>

\* asset.go:470-512: ArchiveAsset resubmits the asset with sys.archivedAt
ArchivePut ==
  /\ pc = "archivePut"
  /\ \E res \in {"ok", "fail"} :
       /\ LogBody("ArchivePut", assetID, ArchiveVersion, assets[assetID].version, res,
                  ArchivePayload(ReadBody))
       /\ IF res = "ok"
          THEN /\ assets' = [assets EXCEPT ![assetID].state = "archived",
                                           ![assetID].version = @ + 1]
               /\ pc' = "patch"
               /\ UNCHANGED <<locals, ledgers, warnings, entries, nCreated>>
          ELSE /\ FailRow(newAssetID, "archive old asset", "archive failed")
               /\ UNCHANGED backend
  /\ UNCHANGED <<names, urls, config, meta, variant, input, prior, rowNum, fieldsPerRecord, exitCode, files>>

\* entry.go:342-346: er.Sys.Version of the answer to the patch
PatchedVersion(res) ==
  CASE res = "ok" -> entries[entryID].version + 1
    [] res = "ignored" -> entries[entryID].version
    [] OTHER -> 0

\* the fetched version raised by one before it is sent
PatchVersion_Bumped == entry.Version + 1

\* main.go:224: the version sent with PatchEntryAssetLink
PatchVersion == entry.Version

\* the patch entered whatever id the create step returned
HasNewAssetID_Unchecked == newAssetID \in NewAssetIds \cup {""}

\* main.go:216: if newAssetID != ""
HasNewAssetID == newAssetID # ""

\* main.go:216-234, 254-257 / entry.go:291-347.  "ignored" is a 2xx answer of
\* a backend that did not apply the patch.
PatchEntryAssetLink ==
  /\ pc = "patch"
  /\ IF HasNewAssetID
     THEN \E res \in {"ok", "ignored", "fail"} :
            /\ LogFull("PatchEntry", entryID, PatchVersion, entries[entryID].version, res, "",
                       PatchedVersion(res))
            /\ IF res = "fail"
               THEN /\ FailRow(newAssetID, "patch entry", "remote")
                    /\ UNCHANGED backend
               ELSE /\ entries' = IF res = "ok"
                                  THEN [entries EXCEPT ![entryID].link = newAssetID,
                                                       ![entryID].version = @ + 1]
                                  ELSE entries
                    /\ newVersion' = PatchedVersion(res)
                    /\ pc' = "publishEntry"
                    /\ UNCHANGED <<entryID, assetID, entry, asset, savedPath, newAssetID,
                                   created, i, latestVersion, ledgers, warnings, assets, nCreated>>
     ELSE /\ FailRowQuiet(newAssetID, "missing new asset id")
          /\ UNCHANGED <<backend, calls>>
  /\ UNCHANGED <<names, urls, config, meta, variant, input, prior, rowNum, fieldsPerRecord, exitCode, files>>

\* the version read at FETCH_ENTRY sent again with the publish
PublishVersion_PrePatch == entry.Version

\* main.go:239: the version sent with PublishEntry
PublishVersion == newVersion

\* main.go:235-253 and, for the older main, main.go:479-485 / entry.go:260-288
PublishEntry ==
  /\ pc = "publishEntry"
  /\ \E res \in {"ok", "fail"} :
       /\ Log("PublishEntry", entryID, PublishVersion, entries[entryID].version, res)
       /\ IF res = "fail"
          THEN /\ FailRow(newAssetID, "publish entry", "remote")
               /\ UNCHANGED backend
          ELSE /\ entries' = [entries EXCEPT ![entryID].version = @ + 1]
               /\ UNCHANGED <<assets, nCreated>>
               /\ IF variant = "replacer"
                  THEN /\ pc' = "validate"
                       /\ UNCHANGED <<locals, ledgers, warnings>>
                  ELSE \* main.go:485: success recorded without a re-fetch
                       /\ WriteSuccess(entryID, assetID, newAssetID)
                       /\ Continue
                       /\ UNCHANGED warnings
  /\ UNCHANGED <<names, urls, config, meta, variant, input, prior, rowNum, fieldsPerRecord, exitCode, files>>

\* main.go:264-291
validateAssetReplacement ==
  /\ pc = "validate"
  /\ \E res \in {"ok", "fail"} :
       /\ LogRet("ValidateFetch", entryID, 0, 0, res,
                 IF res = "ok" THEN entries[entryID].link ELSE "")
       /\ IF res = "fail"
          THEN FailRow(newAssetID, "validation fetch entry", "remote")
          ELSE IF entries[entryID].link = newAssetID
          THEN /\ WriteSuccess(entryID, assetID, newAssetID)
               /\ Continue
               /\ UNCHANGED warnings
          ELSE FailRow(newAssetID, "validation failed", "mismatch")
  /\ UNCHANGED <<names, urls, config, meta, variant, input, prior, rowNum, fieldsPerRecord, exitCode, backend, files>>

Pipeline ==
  \/ Start \/ ReadRow \/ FetchEntry \/ FetchAsset \/ DownloadAssetFile
  \/ Upload \/ CreateRecord \/ ProcessRequest \/ Poll \/ PublishAsset
  \/ UnpublishAsset \/ ArchiveGet \/ ArchivePut \/ PatchEntryAssetLink \/ PublishEntry

Next == Pipeline \/ validateAssetReplacement

NextLegacy == Pipeline

Spec == Init /\ [][Next]_vars

\* The process is killed from outside (main installs no signal handler): the
\* deferred Flush calls of main.go:51 and 64 do not run, what the csv writers
\* still buffer is lost, the files keep what was flushed.  (The writers flush
\* by themselves only when their 4096-byte buffer fills, which the rows of
\* Inputs never do.)
Terminate ==
  /\ pc \notin {"done", "panicked", "killed", "fatal"}
  /\ pc' = "killed"
  /\ successW' = <<>>
  /\ failedW' = <<>>
  /\ UNCHANGED <<names, urls, config, meta, variant, input, prior, rowNum, fieldsPerRecord, locals, successF, failedF,
                 warnings, exitCode, backend, files, calls>>

\* every remote call returns and main is never suspended for good: a step
\* that can be taken is eventually taken
SpecLive == Init /\ [][Next]_vars /\ WF_vars(Next)

NextKill == Next \/ Terminate

NextPreflight == Next \/ fatalf

SpecPreflight == InitPreflight /\ [][NextPreflight]_vars

SpecKill == Init /\ [][NextKill]_vars

SpecRerun == InitRerun /\ [][NextKill]_vars

SpecLegacy == InitLegacy /\ [][NextLegacy]_vars

\* one row whose old asset carries any of the metadata
InitMeta ==
  /\ InitRun
  /\ NamesIdle
  /\ UrlsIdle
  /\ config = GoodConfig
  /\ meta \in Metadata
  /\ input = << <<"E1", "A1">> >>
  /\ prior = NoPrior
  /\ successF = <<>> /\ failedF = <<>>
  /\ variant = "replacer"

SpecMeta == InitMeta /\ [][Next]_vars

\* ------------------------------------------------------------ file names
InitNames ==
  /\ InitRun
  /\ config = GoodConfig
  /\ meta = DefaultMeta
  /\ input = << <<"E1", "A1">> >>
  /\ prior = NoPrior
  /\ successF = <<>> /\ failedF = <<>>
  /\ variant = "replacer"
  /\ fileName \in FileNames
  /\ timestamp \in Timestamps
  /\ fileNameWithTimestamp = <<>> /\ cleanName = <<>>
  /\ npc = "named"
  /\ UrlsIdle

\* DownloadAssetFile names the saved file
NameDownload ==
  /\ npc = "named"
  /\ fileNameWithTimestamp' = TimestampedName(fileName, timestamp)
  /\ npc' = "downloaded"
  /\ UNCHANGED <<pipeline, urls, fileName, timestamp, cleanName>>

\* CreateAndPublishAssetFromFile (asset.go:248) strips the name of the saved file
NameStrip ==
  /\ npc = "downloaded"
  /\ cleanName' = removeTimestampFromFilename(fileNameWithTimestamp, timestamp)
  /\ npc' = "stripped"
  /\ UNCHANGED <<pipeline, urls, fileName, timestamp, fileNameWithTimestamp>>

NextNames == NameDownload \/ NameStrip

SpecNames == InitNames /\ [][NextNames]_vars

\* ------------------------------------------------------------------ URLs
InitUrls ==
  /\ InitRun
  /\ NamesIdle
  /\ config = GoodConfig
  /\ meta = DefaultMeta
  /\ input = << <<"E1", "A1">> >>
  /\ prior = NoPrior
  /\ successF = <<>> /\ failedF = <<>>
  /\ variant = "replacer"
  /\ u \in Urls
  /\ secured = <<>> /\ securedTwice = <<>>
  /\ upc = "given"

\* a caller (asset.go:170, 608, 627) normalises the URL
Secure ==
  /\ upc = "given"
  /\ secured' = ensureHTTPS(u)
  /\ upc' = "secured"
  /\ UNCHANGED <<pipeline, names, u, securedTwice>>

\* the normalised URL is normalised again
SecureAgain ==
  /\ upc = "secured"
  /\ securedTwice' = ensureHTTPS(secured)
  /\ upc' = "securedTwice"
  /\ UNCHANGED <<pipeline, names, u, secured>>

NextUrls == Secure \/ SecureAgain

SpecUrls == InitUrls /\ [][NextUrls]_vars

\* ------------------------------------------------------------- properties
AllSuccess == successF \o successW
AllFailed == failedF \o failedW

\* the outcome rows (the header has row 0)
SuccessRows == { AllSuccess[j] : j \in { n \in DOMAIN AllSuccess : AllSuccess[n].row > 0 } }
FailedRows == { AllFailed[j] : j \in { n \in DOMAIN AllFailed : AllFailed[n].row > 0 } }

OutcomeRows(led) == { j \in DOMAIN led : led[j].row > 0 }

OutcomeCount(led, k) == Cardinality({ j \in DOMAIN led : led[j].row = k })

\* row k of the input parses: right column count, two non-blank ids, not the
\* header line
RowParses(k) ==
  LET r == input[k]
  IN /\ Len(r) >= 2
     /\ Len(r) = Len(input[1])
     /\ r[1] \notin {"", " "}
     /\ r[2] \notin {"", " "}
     /\ ~(k = 1 /\ (r[1] \in {"entry_id", "Entry_ID"} \/ r[2] \in {"asset_id", "Asset_Id"}))

RunEnded == pc \in {"done", "panicked"}

\* row k has been driven to its end, or the run is over
RowDone(k) == RunEnded \/ k < rowNum \/ (k = rowNum /\ pc = "read")

CallsOfRow(k) == { j \in DOMAIN calls : calls[j].row = k }

\* C1: every input row that parses gets exactly one outcome row, in exactly
\* one of the two ledgers, once it has been processed; no other row gets any;
\* at the end of the run the outcome rows number the parsed rows.
C1_ExactlyOneOutcome ==
  /\ \A k \in 1..Len(input) :
       LET n == OutcomeCount(AllSuccess, k) + OutcomeCount(AllFailed, k)
       IN IF RowDone(k) /\ RowParses(k) THEN n = 1 ELSE n = 0
  /\ RunEnded =>
       Cardinality(OutcomeRows(AllSuccess)) + Cardinality(OutcomeRows(AllFailed))
         = Cardinality({ k \in 1..Len(input) : RowParses(k) })

C1_Witness ==
  /\ pc = "done"
  /\ \E s \in SuccessRows : \E f \in FailedRows : s.row # f.row

\* C2: a success row is written only after PublishEntry succeeded and a fresh
\* FetchEntry of the entry returned a link equal to the row's new asset id
\* (stated of the row just processed, whose calls the history holds).
C2_SuccessOnlyAfterValidation ==
  \A j \in OutcomeRows(AllSuccess) :
    LET s == AllSuccess[j]
    IN s.row = rowNum =>
       \E v \in DOMAIN calls :
         /\ calls[v].row = s.row
         /\ calls[v].op = "ValidateFetch" /\ calls[v].res = "ok"
         /\ calls[v].ret = s.new
         /\ \E p \in 1..(v - 1) :
              /\ calls[p].row = s.row
              /\ calls[p].op = "PublishEntry" /\ calls[p].res = "ok"

RetireOps == {"UnpublishAsset", "ArchiveGet", "ArchivePut"}

\* C3: UnpublishAsset and ArchiveAsset are issued for a row only after the
\* row's asset creation returned without error: the create call answered 2xx,
\* a poll read showed the file URL, and the asset publish answered 2xx.
C3_RetireOnlyAfterCreate ==
  \A j \in DOMAIN calls :
    calls[j].op \in RetireOps =>
      \E p \in 1..(j - 1) :
        /\ calls[p].row = calls[j].row
        /\ calls[p].op = "PublishAsset" /\ calls[p].res = "ok"
        /\ \E r \in 1..(p - 1) :
             /\ calls[r].row = calls[j].row
             /\ calls[r].op = "Poll" /\ calls[r].res = "ready"
             /\ \E c \in 1..(r - 1) :
                  /\ calls[c].row = calls[j].row
                  /\ calls[c].op = "CreateAsset" /\ calls[c].res \in {"ok", "noid"}

C3_Witness ==
  \E j \in DOMAIN calls : calls[j].op = "ArchivePut" /\ calls[j].res = "ok"

\* the row rowNum has just been written to the failure ledger
JustFailed ==
  /\ pc = "read"
  /\ rowNum > 0
  /\ Len(failedW) > 0
  /\ failedW[Len(failedW)].row = rowNum

LastFailed == failedW[Len(failedW)]

\* the assets row k has unpublished or archived
RetiredBy(k) ==
  { calls[j].id : j \in { n \in DOMAIN calls :
                            /\ calls[n].row = k
                            /\ calls[n].op \in {"UnpublishAsset", "ArchivePut"}
                            /\ calls[n].res = "ok" } }

\* C4 as stated: when a row ends FAILED, at whatever stage, the entry's
\* reference field does not point at an asset this row unpublished or archived.
C4_FailedNeverLeavesDeadLink ==
  (JustFailed /\ LastFailed.entry \in EntryIds) =>
     entries[LastFailed.entry].link \notin RetiredBy(rowNum)

EarlyTags ==
  { "fetch entry", "fetch asset", "download file", "asset has empty file URL",
    "create new asset", "no savedPath for new asset", "unpublish old asset" }

\* C4 amended: a row that ends FAILED at a stage up to and including
\* UNPUBLISH_OLD has had no unpublish or archive call succeed, so the entry
\* cannot reference an asset retired by that row.
C4_EarlyFailureRetiresNothing ==
  (JustFailed /\ LastFailed.err \in EarlyTags) => RetiredBy(rowNum) = {}

C4_Witness ==
  /\ JustFailed
  /\ LastFailed.err = "unpublish old asset"
  /\ entries[LastFailed.entry].link = LastFailed.old

LateTags ==
  { "unpublish old asset", "archive old asset", "patch entry", "publish entry",
    "validation fetch entry", "validation failed", "missing new asset id" }

\* C5: no failure row of stage UNPUBLISH_OLD or later has an empty
\* new_asset_id, and the old asset is never unpublished or archived while the
\* new asset id the pipeline holds is empty.
C5_NoRetireWithoutNewId ==
  /\ pc \in {"unpublish", "archiveGet", "archivePut"} => newAssetID # ""
  /\ \A j \in OutcomeRows(AllFailed) :
       AllFailed[j].err \in LateTags => AllFailed[j].new # ""

\* the pipeline stage a remote call belongs to
StageOf(op) ==
  CASE op = "FetchEntry" -> 1
    [] op = "FetchAsset" -> 2
    [] op = "Download" -> 3
    [] op \in {"Upload", "CreateAsset", "Process", "Poll", "PublishAsset"} -> 4
    [] op = "UnpublishAsset" -> 5
    [] op \in {"ArchiveGet", "ArchivePut"} -> 6
    [] op = "PatchEntry" -> 7
    [] op = "PublishEntry" -> 8
    [] op = "ValidateFetch" -> 9

\* call c is the last call of its stage and it succeeded
StageDone(c) ==
  \/ /\ c.op \in {"FetchEntry", "FetchAsset", "Download", "PublishAsset", "UnpublishAsset",
                   "ArchivePut", "PublishEntry", "ValidateFetch"}
     /\ c.res = "ok"
  \/ c.op = "PatchEntry" /\ c.res \in {"ok", "ignored"}

\* call c did not fail and its stage has further calls to make
StageGoesOn(c) ==
  /\ c.op \in {"Upload", "CreateAsset", "Process", "Poll", "ArchiveGet"}
  /\ c.res \notin {"fail", "timeout"}

\* C6: within a row the stages are entered in the order FETCH_ENTRY ...
\* VALIDATE: the first call of a row is FetchEntry, every further call stays
\* in the stage of its predecessor or opens the next stage after the
\* predecessor completed its stage with success, and a success row has gone
\* through all nine stages.
C6_StagesInOrder ==
  /\ \A j \in DOMAIN calls :
       IF j = 1 \/ calls[j - 1].row # calls[j].row
       THEN StageOf(calls[j].op) = 1
       ELSE \/ /\ StageOf(calls[j].op) = StageOf(calls[j - 1].op)
               /\ StageGoesOn(calls[j - 1])
            \/ /\ StageOf(calls[j].op) = StageOf(calls[j - 1].op) + 1
               /\ StageDone(calls[j - 1])
  /\ \A j \in OutcomeRows(AllSuccess) :
       AllSuccess[j].row = rowNum =>
         /\ { StageOf(calls[n].op) : n \in CallsOfRow(rowNum) } = 1..9
         /\ \E v \in CallsOfRow(rowNum) :
              calls[v].op = "ValidateFetch" /\ StageDone(calls[v])

C6_Witness ==
  /\ pc = "read"
  /\ \E j \in OutcomeRows(AllSuccess) : AllSuccess[j].row = rowNum

\* C7: no row content and no remote-call failure aborts the run: the run ends
\* only at the end of the input, after every row was read, with exit code 0.
C7_RunNeverAborts ==
  RunEnded => (pc = "done" /\ rowNum = Len(input) /\ exitCode = 0)

\* C8: every mutating call on the old asset carries the version the backend
\* holds for it when the call arrives; in particular ArchiveAsset carries the
\* version the asset has after the preceding UnpublishAsset.
C8_OldAssetTokenCurrent ==
  \A j \in DOMAIN calls :
    calls[j].op \in {"UnpublishAsset", "ArchivePut"} => calls[j].token = calls[j].cur

TimeoutMsg == "asset processing did not complete: file URL missing"

TimeoutCalls == { j \in DOMAIN calls : calls[j].op = "Poll" /\ calls[j].res = "timeout" }

NoRetireCalls(k) ==
  \A n \in DOMAIN calls : calls[n].row = k => calls[n].op \notin RetireOps

\* C9 as stated: a row whose poll ran out of attempts is in the failure ledger
\* with an empty new_asset_id and the processing-timeout message, and no
\* unpublish or archive call was issued for it.
C9_TimeoutRowHasEmptyNewId ==
  \A j \in TimeoutCalls :
    /\ \E f \in OutcomeRows(AllFailed) :
         /\ AllFailed[f].row = calls[j].row
         /\ AllFailed[f].err = "create new asset" /\ AllFailed[f].detail = TimeoutMsg
         /\ AllFailed[f].new = ""
    /\ NoRetireCalls(calls[j].row)

\* C9 amended: such a row is in the failure ledger with the id the create
\* call returned for the new asset as new_asset_id and the processing-timeout
\* message, and no unpublish or archive call was issued for it.
C9_TimeoutRowHasCreatedId ==
  \A j \in TimeoutCalls :
    /\ \E f \in OutcomeRows(AllFailed) :
         /\ AllFailed[f].row = calls[j].row
         /\ AllFailed[f].err = "create new asset" /\ AllFailed[f].detail = TimeoutMsg
         /\ \E c \in 1..(j - 1) :
              /\ calls[c].row = calls[j].row
              /\ calls[c].op = "CreateAsset"
              /\ calls[c].ret = AllFailed[f].new
    /\ NoRetireCalls(calls[j].row)

C9_Witness ==
  \E j \in TimeoutCalls : calls[j].id # ""

\* C10: the poll issues at most PollCap status reads (i counts the reads
\* issued by the running poll, and every step that stays in the poll spends
\* one); a row whose poll ran out of attempts has no asset publish call, and
\* asset creation was called once for it.
C10_PollBounded ==
  /\ [](/\ pc = "poll" => i < PollCap
        /\ \A j \in TimeoutCalls :
             /\ \A n \in DOMAIN calls :
                  calls[n].row = calls[j].row => calls[n].op # "PublishAsset"
             /\ Cardinality({ n \in CallsOfRow(calls[j].row) : calls[n].op = "Upload" }) = 1
             /\ Cardinality({ n \in CallsOfRow(calls[j].row) : calls[n].op = "Poll" }) = 1)
  /\ [][(pc = "poll" /\ pc' = "poll") => i' = i + 1]_vars

C10_Witness ==
  /\ pc = "read"
  /\ \E j \in TimeoutCalls : calls[j].row = rowNum /\ j = Len(calls)

\* C11: the version sent with PublishEntry is the version the answer to the
\* row's PatchEntryLink carried, that patch is the call right before it and
\* succeeded, and when the backend applied the patch the version sent differs
\* from the one read at FETCH_ENTRY.
C11_PublishTokenFromPatch ==
  \A j \in DOMAIN calls :
    calls[j].op = "PublishEntry" =>
      /\ j > 1
      /\ calls[j - 1].row = calls[j].row
      /\ calls[j - 1].op = "PatchEntry"
      /\ calls[j - 1].res \in {"ok", "ignored"}
      /\ calls[j].token = calls[j - 1].ver
      /\ calls[j - 1].res = "ok" =>
           \A f \in 1..(j - 1) :
             (calls[f].op = "FetchEntry" /\ calls[f].res = "ok") => calls[j].token # calls[f].ver

C11_Witness ==
  \E j \in DOMAIN calls :
    /\ calls[j].op = "PublishEntry"
    /\ calls[j - 1].res = "ok"
    /\ calls[j].token = entries[calls[j].id].version

\* the answers that stand for a non-2xx status ("fail" also covers a
\* transport error, which the client treats the same way)
Non2xx == {"fail", "non2xx"}

\* C12: a remote call answered with a non-2xx status returns an error: it is
\* the last call of its row, no later call of the row is built on it, and the
\* row is written to the failure ledger.
C12_Non2xxIsError ==
  \A j \in DOMAIN calls :
    calls[j].res \in Non2xx =>
      /\ j = Len(calls)
      /\ pc \in {"read", "done"}
      /\ \E f \in OutcomeRows(AllFailed) : AllFailed[f].row = calls[j].row

MutatingOps ==
  { "Upload", "CreateAsset", "Process", "PublishAsset", "UnpublishAsset", "ArchivePut",
    "PatchEntry", "PublishEntry" }

ReadOps == { "FetchEntry", "FetchAsset", "Download", "ArchiveGet", "ValidateFetch" }

CallCount(k, op) == Cardinality({ n \in CallsOfRow(k) : calls[n].op = op })

\* C13: no remote call is retried: within a row every mutating call and
\* every read outside the poll is issued at most once, a call that failed is
\* the last call of its row, and the poll goes on to a further status read
\* only while none of its reads failed, showed the file URL or ran out the
\* attempts (every earlier read of it was a successful read without URL).
C13_NoRetry ==
  /\ \A op \in MutatingOps \cup ReadOps : CallCount(rowNum, op) <= 1
  /\ \A j \in DOMAIN calls : calls[j].res \in {"fail", "timeout"} => j = Len(calls)
  /\ pc = "poll" => CallCount(rowNum, "Poll") = 0
  /\ CallCount(rowNum, "Poll") <= 1

C13_Witness ==
  /\ pc = "read"
  /\ Len(calls) > 0
  /\ calls[Len(calls)].op = "PublishEntry"
  /\ calls[Len(calls)].res = "fail"
  /\ \E j \in DOMAIN calls : calls[j].op = "Poll" /\ calls[j].res = "ready"

PersistedCount(k) == OutcomeCount(successF, k) + OutcomeCount(failedF, k)

\* C14: when the process is terminated, every row that was completed before
\* the row in progress began has exactly one outcome row in the persisted
\* ledgers.
C14_CompletedRowsPersisted ==
  pc = "killed" =>
    \A k \in 1..(rowNum - 1) : RowParses(k) => PersistedCount(k) = 1

IsPrefix(p, q) == Len(p) <= Len(q) /\ SubSeq(q, 1, Len(p)) = p

\* what the run has added to a ledger that held p: persisted f, buffered w
Added(p, f, w) == SubSeq(f \o w, Len(p) + 1, Len(f) + Len(w))

HeaderPositions(led) == { j \in DOMAIN led : led[j].row = 0 }

\* ledger p/f/w is append-only and header-once
LedgerKept(p, f, w, header) ==
  /\ IsPrefix(p, f)
  /\ pc \notin {"start", "killed"} =>
        IF Len(p) = 0
        THEN Len(Added(p, f, w)) > 0 /\ Added(p, f, w)[1] = header
        ELSE HeaderPositions(Added(p, f, w)) = {}
  /\ HeaderPositions(f \o w) \subseteq {1}
  /\ Len(f) > 0 => f[1] = header

Unparsable(k) ==
  LET r == input[k]
  IN \/ Len(r) # Len(input[1])
     \/ Len(r) < 2
     \/ r[1] \in {"", " "}
     \/ r[2] \in {"", " "}

WarnedRows == { warnings[w].row : w \in DOMAIN warnings }

\* C16: a row that does not parse is skipped with a warning: once it was
\* read there is a warning for it, no ledger row and no remote call of it,
\* and the run goes on to read the next row.
C16_UnparsableRowSkipped ==
  \A k \in 1..rowNum :
    Unparsable(k) =>
      /\ k \in WarnedRows
      /\ OutcomeCount(AllSuccess, k) + OutcomeCount(AllFailed, k) = 0
      /\ k = rowNum => (calls = <<>> /\ pc \in {"read", "done"})

\* row 1 of the input holds the literal column names, in any letter case
HeaderLooking ==
  /\ Len(input[1]) >= 2
  /\ EqualFold(TrimSpace(input[1][1]), "entry_id")
  /\ EqualFold(TrimSpace(input[1][2]), "asset_id")

\* row 1 was read and left without ledger row and without remote call
Row1Skipped ==
  /\ OutcomeCount(AllSuccess, 1) + OutcomeCount(AllFailed, 1) = 0
  /\ rowNum = 1 => (calls = <<>> /\ pc \in {"read", "done"})

C18_StripInvertsSuffix ==
  npc = "stripped" => cleanName = fileName

\* the ids the created asset of the row was given
CreatedIds == { calls[c].ret : c \in { n \in DOMAIN calls : calls[n].op = "CreateAsset" } }

\* every remote call of the row just processed and its download succeeded, and
\* the post-publish fetch returned the link that asset creation returned
RowAllOk ==
  /\ pc = "read"
  /\ Len(calls) > 0
  /\ \A j \in DOMAIN calls : calls[j].res \in {"ok", "ready"}
  /\ calls[Len(calls)].op = "ValidateFetch"
  /\ calls[Len(calls)].ret \in CreatedIds

\* C19: such a row (E, A) with new asset N has exactly one row (E, A, N) in
\* the success ledger and no row in the failure ledger.
C19_AllOkRowInSuccessLedger ==
  RowAllOk =>
    LET want == [row |-> rowNum,
                 entry |-> TrimSpace(input[rowNum][1]),
                 old |-> TrimSpace(input[rowNum][2]),
                 new |-> calls[Len(calls)].ret,
                 err |-> "", detail |-> ""]
    IN /\ Cardinality({ j \in DOMAIN AllSuccess : AllSuccess[j] = want }) = 1
       /\ OutcomeCount(AllSuccess, rowNum) = 1
       /\ OutcomeCount(AllFailed, rowNum) = 0

C19_Witness ==
  /\ RowAllOk
  /\ rowNum = 2
  /\ Cardinality(OutcomeRows(AllFailed)) = 1

\* the calls in which ArchiveAsset failed for its row
ArchiveFailures ==
  { j \in DOMAIN calls : calls[j].op \in {"ArchiveGet", "ArchivePut"} /\ calls[j].res = "fail" }

\* C20: when ArchiveAsset fails for row (E, A) whose new asset is N, the
\* failure ledger has the row (E, A, N, "archive old asset: ..."), the success
\* ledger has no row for it, and no PatchEntryLink or PublishEntry call was
\* issued for it.
C20_ArchiveFailureRow ==
  \A j \in ArchiveFailures :
    LET k == calls[j].row
    IN /\ \E f \in OutcomeRows(AllFailed) :
            /\ AllFailed[f].row = k
            /\ AllFailed[f].entry = TrimSpace(input[k][1])
            /\ AllFailed[f].old = TrimSpace(input[k][2])
            /\ AllFailed[f].new \in CreatedIds
            /\ AllFailed[f].err = "archive old asset"
       /\ OutcomeCount(AllFailed, k) = 1
       /\ OutcomeCount(AllSuccess, k) = 0
       /\ \A n \in CallsOfRow(k) : calls[n].op \notin {"PatchEntry", "PublishEntry"}

C20_Witness ==
  /\ pc = "read"
  /\ \E j \in ArchiveFailures : calls[j].op = "ArchivePut"
  /\ \E f \in OutcomeRows(AllFailed) :
       AllFailed[f].row = rowNum /\ AllFailed[f].new \in NewAssetIds

\* the prefixes "<stage>: " that main and validateAssetReplacement put before
\* the error of a failed call
StageTags ==
  { "fetch entry", "fetch asset", "download file", "create new asset",
    "unpublish old asset", "archive old asset", "patch entry", "publish entry",
    "validation fetch entry", "validation failed" }

\* the part of a failure row's error text before its first ": " (empty when
\* the text has none)
ErrorPrefix(f) == IF f.detail = "" THEN "" ELSE f.err

\* the tag of the stage a remote call belongs to
TagOfCall(op) ==
  CASE op = "FetchEntry" -> "fetch entry"
    [] op = "FetchAsset" -> "fetch asset"
    [] op = "Download" -> "download file"
    [] op \in {"Upload", "CreateAsset", "Process", "Poll", "PublishAsset"} -> "create new asset"
    [] op = "UnpublishAsset" -> "unpublish old asset"
    [] op \in {"ArchiveGet", "ArchivePut"} -> "archive old asset"
    [] op = "PatchEntry" -> "patch entry"
    [] op = "PublishEntry" -> "publish entry"
    [] op = "ValidateFetch" -> "validation fetch entry"

\* C21: the error text of every failure row begins with the tag of the stage
\* at which the row failed, on every failing path.
C21_ErrorTaggedWithStage ==
  /\ \A f \in FailedRows : ErrorPrefix(f) \in StageTags
  /\ (JustFailed /\ Len(calls) > 0 /\ calls[Len(calls)].res \in {"fail", "timeout", "copyfail"}) =>
        ErrorPrefix(LastFailed) = TagOfCall(calls[Len(calls)].op)

\* the configuration errors: blank input path, blank token, blank space id,
\* unreadable input file, a ledger file that cannot be opened
PreflightError ==
  \/ config.csvPath \in {"", " "}
  \/ config.token \in {"", " "}
  \/ config.spaceID \in {"", " "}
  \/ ~config.csvOpens
  \/ ~config.successOpens
  \/ ~config.failedOpens

\* C22: with a configuration error the run never gets past its start: it
\* ends with a non-zero exit code, no row read, no remote call issued, no
\* ledger row and no download.
C22_PreflightAborts ==
  PreflightError =>
    /\ pc \in {"start", "fatal"}
    /\ pc = "fatal" => exitCode > 0
    /\ rowNum = 0 /\ calls = <<>> /\ files = {}
    /\ AllSuccess = <<>> /\ AllFailed = <<>>
    /\ entries = InitEntries /\ assets = InitAssets

C22_Witness ==
  /\ pc = "fatal"
  /\ ~config.failedOpens
  /\ config.successOpens /\ config.csvOpens
  /\ config.token = "t" /\ config.csvPath = "id.csv" /\ config.spaceID = "s"

\* C23: whatever the input and the outcomes of the rows, the run eventually
\* reaches the end of the input, with both ledgers flushed and exit code 0.
C23_RunCompletes ==
  <>(pc = "done" /\ exitCode = 0 /\ rowNum = Len(input) /\ successW = <<>> /\ failedW = <<>>)

\* the outcome rows of a ledger keep the order of their input rows
InInputOrder(led) ==
  \A a, b \in OutcomeRows(led) : a < b => led[a].row < led[b].row

\* a row is being driven through the pipeline
RowInProgress == pc \notin {"start", "read", "done", "panicked", "killed", "fatal"}

\* C24: rows are processed one at a time: every remote call on record
\* belongs to the row being processed, no ledger row is of a later row, while
\* a row is in progress every earlier row that parses has its outcome and the
\* row itself has none yet, and each ledger lists its outcome rows in the
\* order of the input rows.
C24_OneRowAtATime ==
  /\ \A j \in DOMAIN calls : calls[j].row = rowNum
  /\ \A f \in SuccessRows \cup FailedRows : f.row <= rowNum
  /\ RowInProgress =>
       /\ \A k \in 1..(rowNum - 1) :
            RowParses(k) => OutcomeCount(AllSuccess, k) + OutcomeCount(AllFailed, k) = 1
       /\ OutcomeCount(AllSuccess, rowNum) + OutcomeCount(AllFailed, rowNum) = 0
  /\ InInputOrder(AllSuccess)
  /\ InInputOrder(AllFailed)

C24_Witness ==
  /\ RowInProgress
  /\ rowNum = 2
  /\ Len(calls) > 0
  /\ Cardinality(OutcomeRows(AllFailed)) = 1

\* the input CSV has the entry_id column only
EntryIdOnly == \A k \in DOMAIN input : Len(input[k]) = 1

\* C25: an input with only the entry_id column is accepted: the run does not
\* abort on it, past FETCH_ENTRY the old asset id of the row is the link of
\* the fetched entry, and every row that was processed has a ledger outcome
\* for its entry.
C25_EntryIdOnlyAccepted ==
  EntryIdOnly =>
    /\ pc # "panicked"
    /\ (RowInProgress /\ pc # "fetchEntry") => assetID = entry.AssetID
    /\ \A k \in 1..Len(input) :
         RowDone(k) =>
           \E f \in SuccessRows \cup FailedRows :
             f.row = k /\ f.entry = TrimSpace(input[k][1])

\* the backend created an asset record for the row being processed
RecordCreated ==
  \E c \in DOMAIN calls : calls[c].op = "CreateAsset" /\ calls[c].res \in {"ok", "noid"}

\* C26: the new_asset_id of a failure row is the id of the asset record the
\* backend created for the row when it created one before the failure, and
\* is empty exactly when no record was created.
C26_NewIdIffRecordCreated ==
  JustFailed =>
    IF RecordCreated
    THEN LastFailed.new = NewIdSeq[nCreated]
    ELSE LastFailed.new = ""

\* C27: the version sent with the publish of the new asset is the version
\* carried by the poll read right before it, which is the read that showed
\* the file URL; no call lies between the two, so for an asset the backend
\* knows the version sent is the backend's current one.
C27_AssetPublishTokenFromLastPoll ==
  \A j \in DOMAIN calls :
    calls[j].op = "PublishAsset" =>
      /\ j > 1
      /\ calls[j - 1].op = "Poll"
      /\ calls[j - 1].res = "ready"
      /\ calls[j - 1].id = calls[j].id
      /\ calls[j].token = calls[j - 1].ver
      /\ calls[j].id # "" => calls[j].token = calls[j].cur

C27_Witness ==
  \E j \in DOMAIN calls :
    /\ calls[j].op = "PublishAsset"
    /\ calls[j].res = "ok"
    /\ calls[j].id \in NewAssetIds
    /\ calls[j].token > 1

EntryMutations == {"PatchEntry", "PublishEntry"}

\* C28: the version sent with PatchEntryLink is the version the row's
\* FETCH_ENTRY read, no call of the pipeline that changes the entry lies
\* between the two, and the version sent is the backend's current version of
\* the entry.
C28_PatchTokenFromFetch ==
  \A j \in DOMAIN calls :
    calls[j].op = "PatchEntry" =>
      /\ \E f \in 1..(j - 1) :
           /\ calls[f].op = "FetchEntry" /\ calls[f].res = "ok"
           /\ calls[f].row = calls[j].row
           /\ calls[f].id = calls[j].id
           /\ calls[f].ver = calls[j].token
           /\ \A m \in (f + 1)..(j - 1) : calls[m].op \notin EntryMutations
      /\ calls[j].token = calls[j].cur

C28_Witness ==
  /\ rowNum = 2
  /\ \E j \in DOMAIN calls :
       calls[j].op = "PatchEntry" /\ calls[j].res = "ok" /\ calls[j].token > 3

\* C29: every failure row comes with a warning that names its row number and
\* its stage.
C29_FailureRowHasWarning ==
  \A f \in FailedRows :
    \E w \in DOMAIN warnings : warnings[w].row = f.row /\ warnings[w].what = f.err

\* the step is a download that created its local file
DownloadWrites ==
  /\ pc = "download"
  /\ Len(calls') = Len(calls) + 1
  /\ calls'[Len(calls')].op = "Download"
  /\ calls'[Len(calls')].res \in {"ok", "copyfail"}

\* C30: a download never writes over the file of an earlier download: the
\* path it creates is one the download directory did not hold before.
C30_DownloadNeverOverwrites ==
  [][DownloadWrites => files' # files]_vars

\* C31: ensureHTTPS turns a protocol-relative URL //rest and a URL whose
\* scheme is http in any letter case into https://rest, returns every other
\* URL as it was given, and applied twice gives what it gives applied once
\* (checked on the URLs that carry no white space around them).
SchemeOf(url) ==
  IF HasPrefix(url, <<"/", "/">>) THEN 2
  ELSE IF HasPrefix(ToLowerChars(url), <<"h", "t", "t", "p", ":", "/", "/">>) THEN 7
  ELSE 0

Secured(url) ==
  IF SchemeOf(url) = 0 THEN url
  ELSE <<"h", "t", "t", "p", "s", ":", "/", "/">> \o SubSeq(url, SchemeOf(url) + 1, Len(url))

C31_EnsureHTTPS ==
  u = TrimSpaceChars(u) =>
    /\ upc \in {"secured", "securedTwice"} => secured = Secured(u)
    /\ upc = "securedTwice" => securedTwice = secured

\* C32: a download of an asset with a blank file URL, or one the transfer
\* answers with a non-2xx status, fails the row, creates or truncates no
\* local file and hands no path to the caller.
DownloadRefused ==
  /\ pc = "download" /\ pc' # "download"
  /\ \/ TrimSpace(asset.FileURL) = ""
     \/ /\ Len(calls') = Len(calls) + 1
        /\ calls'[Len(calls')].op = "Download"
        /\ calls'[Len(calls')].res = "fail"

C32_RefusedDownloadWritesNothing ==
  [][DownloadRefused =>
       /\ files' = files
       /\ savedPath' = ""
       /\ pc' = "read"
       /\ Len(failedW') = Len(failedW) + 1
       /\ failedW'[Len(failedW')].new = ""]_vars

C32_Witness ==
  /\ pc = "read" /\ rowNum = 2
  /\ calls # <<>>
  /\ calls[Len(calls)].op = "Download" /\ calls[Len(calls)].res = "fail"
  /\ files # {}
  /\ failedW # <<>> /\ failedW[Len(failedW)].row = rowNum

\* C33: ArchiveAsset issues its write only right after a read that
\* succeeded, and the object it submits is the object it read with only
\* sys.archivedAt added or replaced: the same top-level keys, every key but
\* sys with the value read, and every key of sys but archivedAt with the
\* value read; after a read that failed no write follows.
StampedCopy(sent, read) ==
  /\ DOMAIN sent = DOMAIN read
  /\ \A k \in DOMAIN read \ {"sys"} : sent[k] = read[k]
  /\ DOMAIN sent["sys"] = DOMAIN read["sys"] \cup {"archivedAt"}
  /\ \A j \in DOMAIN read["sys"] \ {"archivedAt"} : sent["sys"][j] = read["sys"][j]

C33_ArchiveResubmitsWhatItRead ==
  \A k \in DOMAIN calls :
    /\ calls[k].op = "ArchivePut" =>
         /\ k > 1
         /\ calls[k - 1].op = "ArchiveGet" /\ calls[k - 1].res = "ok"
         /\ StampedCopy(calls[k].body, calls[k - 1].body)
    /\ (calls[k].op = "ArchiveGet" /\ calls[k].res # "ok") =>
         \A m \in DOMAIN calls : m > k => ~(calls[m].op \in {"ArchivePut"})

C33_Witness ==
  \E k \in DOMAIN calls :
    /\ calls[k].op = "ArchivePut"
    /\ calls[k].res = "ok"
    /\ "archivedAt" \notin DOMAIN calls[k - 1].body["sys"]
    /\ calls[k].body["sys"]["id"] = assetID
    /\ calls[k].body["sys"]["archivedAt"] = "now"
    /\ calls[k].body["fields"] = calls[k - 1].body["fields"]

\* the create-asset requests of the row
CreateCalls == { k \in DOMAIN calls : calls[k].op = "CreateAsset" }

RowFailed ==
  /\ rowNum > 0
  /\ \E f \in DOMAIN AllFailed : AllFailed[f].row = rowNum

\* C35: once a row has failed, no further remote call is issued for it and
\* nothing is undone: the backend and the local files stay as the failure
\* left them, so a new asset already created or published remains and an
\* old asset already unpublished or archived is not restored.
C35_NoCompensation ==
  [][RowFailed =>
       /\ calls' = calls \/ calls' = <<>>
       /\ backend' = backend
       /\ files' = files]_vars

C35_Witness ==
  /\ pc = "done"
  /\ \E f \in DOMAIN AllFailed :
       /\ AllFailed[f].row = 1
       /\ AllFailed[f].new = "N1"
       /\ AllFailed[f].err = "archive old asset"
  /\ assets["N1"].state = "published"
  /\ assets["A1"].state = "draft"

\* C36: every row of the success ledger has a non-empty entry id, a
\* non-empty old asset id and a non-empty new asset id.
C36_SuccessRowComplete ==
  \A r \in SuccessRows : r.entry # "" /\ r.old # "" /\ r.new # ""

C36_Witness ==
  /\ \E r \in SuccessRows : r.row = 2 /\ r.new \in NewAssetIds
  /\ \E f \in FailedRows :
       f.row = 1 /\ f.err = "missing new asset id" /\ f.new = ""

\* the asset id of input row k
RowAssetID(k) == TrimSpace(input[k][2])

BlankFileURL == pc = "download" /\ TrimSpace(asset.FileURL) = ""

\* C38: when the fetched old asset has a blank file URL the row gets a
\* failure row with an empty new_asset_id, and no download, upload, create,
\* unpublish, archive, patch or publish call is issued for it: the calls of
\* the row are the two fetches, and the backend stays as it was.
C38_BlankUrlFailsUntouched ==
  [][BlankFileURL =>
       /\ pc' = "read"
       /\ failedW' = Append(failedW, [row |-> rowNum, entry |-> entryID, old |-> assetID,
                                      new |-> "", err |-> "asset has empty file URL",
                                      detail |-> ""])
       /\ successW' = successW
       /\ calls' = calls
       /\ \A k \in DOMAIN calls : calls[k].op \in {"FetchEntry", "FetchAsset"}
       /\ backend' = backend
       /\ files' = files]_vars

C38_Witness ==
  /\ JustFailed
  /\ LastFailed.err = "asset has empty file URL" /\ LastFailed.new = ""
  /\ LastFailed.old = "A2"
  /\ Len(calls) = 2
  /\ assets["A2"] = InitAssets["A2"]

====
